---- MODULE Spec2Model ----
(***************************************************************************)
(* Model of apriltag_ros::ContinuousDepthDetector                          *)
(* (src/apriltag_ros/src/continuous_depth_detector.cpp).                   *)
(*                                                                         *)
(* Three callbacks act on the nodelet's members: imageCallback (a          *)
(* detection cycle, under detection_mutex_), depthCallback (stores the     *)
(* converted depth image, takes no lock) and refreshParamsCallback         *)
(* (replaces tag_detector_, under detection_mutex_).  Each callback is a   *)
(* process with a program counter; the steps of imageCallback are the      *)
(* statements between which the other callbacks can be scheduled.          *)
(***************************************************************************)
EXTENDS Integers, FiniteSets, Sequences, TLC

\* ---------------------------------------------------------------- bounds
MaxColorFrames == 2     \* color frames delivered in one behaviour
MaxDepthFrames == 2     \* depth frames delivered in one behaviour

\* ------------------------------------------------------ program constants
NULL == 0               \* the empty cv_bridge pointer (cv_depth_ == NULL)
DefaultDepthMin == 0    \* pnh.param("depth_min_range", ..., 0.0)
DefaultDepthMax == 10   \* pnh.param("depth_max_range", ..., 10.0)

\* Values the parameter server may hold for the keys the nodelet reads.
DepthMinValues == {DefaultDepthMin, 1}
DepthMaxValues == {DefaultDepthMax, 5}
\* Depth-derived ranges of the tag candidate seen in a frame (none, or one).
CandidateRanges == {-1, 0, 10, 11}

ParamKeys == {"publish_tf", "depth_min_range", "depth_max_range"}

ParamValues(key) ==
    CASE key = "publish_tf" -> BOOLEAN
      [] key = "depth_min_range" -> DepthMinValues
      [] key = "depth_max_range" -> DepthMaxValues

VARIABLES
    paramServer,                 \* the private node handle's parameters
    detSubscribers,              \* tag_detections_publisher_.getNumSubscribers()
    imgSubscribers,              \* tag_detections_image_publisher_.getNumSubscribers()
    detection_mutex_,            \* "free", or the callback holding it
    tag_detector_,               \* the TagDetector: [publish_tf]
    draw_tag_detections_image_,
    depth_min_range_,
    depth_max_range_,
    cv_image_,                   \* NULL or the id of the converted color frame
    cv_depth_,                   \* NULL or the id of the converted depth frame
    imagePc,                     \* position of imageCallback
    depthSeq,                    \* depth frames delivered so far (frame ids)
    colorSeq,                    \* color frames delivered so far (frame ids)
    refreshPc,                   \* position of refreshParamsCallback
    storeFresh,                  \* history: a refresh read the parameters and
                                 \*   nothing has written them since
    lastDepth,                   \* history: the last depthCallback
    cycle                        \* history: what the current/last cycle saw and did

vars == <<paramServer, detSubscribers, imgSubscribers, detection_mutex_,
          tag_detector_, draw_tag_detections_image_, depth_min_range_,
          depth_max_range_, cv_image_, cv_depth_, imagePc, depthSeq, colorSeq,
          refreshPc, storeFresh, lastDepth, cycle>>

env == <<paramServer, detSubscribers, imgSubscribers>>
members == <<tag_detector_, draw_tag_detections_image_, depth_min_range_,
             depth_max_range_, cv_image_, cv_depth_>>

\* Positions of imageCallback at which it holds detection_mutex_.
InCycle == {"gate", "convert", "depthCheck", "detect", "draw"}

\* ------------------------------------------------------------ TagDetector
\* new TagDetector(pnh): a parameter-server lookup (comment, lines 82-84).
NewTagDetector(params) == [publish_tf |-> params.publish_tf]

\* TagDetector::get_publish_tf()
get_publish_tf(detector) == detector.publish_tf

\* TagDetector::detectTags(image, depth, camera_info, min_range, max_range):
\* the candidates whose depth-derived range lies in [min_range, max_range].
detectTags(candidates, min_range, max_range) ==
    {r \in candidates : min_range <= r /\ r <= max_range}

\* ------------------------------------------------------------------ cycle
\* Placeholder for "no detector observed" in the history record.
NoDetector == [publish_tf |-> FALSE]

\* The history of one run of imageCallback: what it read, what it called and
\* published, and how it ended.
NoCycle ==
    [frame |-> NULL, afterDecodeError |-> FALSE, outcome |-> "none",
     depthAtStart |-> NULL, quietAtGate |-> FALSE,
     detectorAtGate |-> NoDetector, depthlessAtCheck |-> FALSE,
     depthAtCheck |-> NULL,
     detects |-> 0, depthUsed |-> NULL, depthFailedBefore |-> FALSE,
     minUsed |-> 0, maxUsed |-> 0,
     pubs |-> 0,
     candidates |-> {}, result |-> {}, draws |-> 0, imgPubs |-> 0, imgSubsAtDraw |-> 0]

\* ------------------------------------------------------------------- Init
\* The state after onInit (lines 40-78), with the depth range parameters unset
\* on the parameter server, so that lines 55-56 store their defaults.
Init ==
    /\ paramServer \in [publish_tf : BOOLEAN,
                        depth_min_range : {DefaultDepthMin},
                        depth_max_range : {DefaultDepthMax}]
    /\ detSubscribers = 0
    /\ imgSubscribers = 0
    /\ detection_mutex_ = "free"
    /\ tag_detector_ = NewTagDetector(paramServer)
    /\ draw_tag_detections_image_ \in BOOLEAN
    /\ depth_min_range_ = paramServer.depth_min_range
    /\ depth_max_range_ = paramServer.depth_max_range
    /\ cv_image_ = NULL
    /\ cv_depth_ = NULL
    /\ imagePc = "idle"
    /\ depthSeq = 0
    /\ colorSeq = 0
    /\ refreshPc = "idle"
    /\ storeFresh = FALSE
    /\ lastDepth = [ok |-> FALSE, everConverted |-> FALSE, good |-> NULL]
    /\ cycle = NoCycle

\* ------------------------------------------------------------ environment
\* A subscriber joins or leaves tag_detections (line 69).
DetSubscribersChange ==
    /\ detSubscribers' = 1 - detSubscribers
    /\ UNCHANGED <<paramServer, imgSubscribers, detection_mutex_, members,
                   imagePc, depthSeq, colorSeq, refreshPc, storeFresh,
                   lastDepth, cycle>>

\* Mutant: tag_detections_image is advertised whatever the option says.
ImgSubscribersChangeAlwaysAdvertised ==
    /\ imgSubscribers' = 1 - imgSubscribers
    /\ UNCHANGED <<paramServer, detSubscribers, detection_mutex_, members,
                   imagePc, depthSeq, colorSeq, refreshPc, storeFresh,
                   lastDepth, cycle>>

\* A subscriber joins or leaves tag_detections_image; the topic is advertised
\* only when draw_tag_detections_image_ is set (lines 70-73).
ImgSubscribersChange ==
    /\ draw_tag_detections_image_
    /\ imgSubscribers' = 1 - imgSubscribers
    /\ UNCHANGED <<paramServer, detSubscribers, detection_mutex_, members,
                   imagePc, depthSeq, colorSeq, refreshPc, storeFresh,
                   lastDepth, cycle>>

\* Someone writes a parameter of the private namespace (comment, lines 83-84).
SetParam(key, value) ==
    /\ paramServer[key] # value
    /\ paramServer' = [paramServer EXCEPT ![key] = value]
    /\ storeFresh' = FALSE
    /\ UNCHANGED <<detSubscribers, imgSubscribers, detection_mutex_, members,
                   imagePc, depthSeq, colorSeq, refreshPc, lastDepth, cycle>>

\* ---------------------------------------------------------- depthCallback
\* Mutant: a failed conversion clears the stored depth image.
DepthCallbackClearsOnError(ok) ==
    /\ depthSeq < MaxDepthFrames
    /\ depthSeq' = depthSeq + 1
    /\ cv_depth_' = IF ok THEN depthSeq + 1 ELSE NULL
    /\ lastDepth' = [ok |-> ok, everConverted |-> lastDepth.everConverted \/ ok,
                     good |-> IF ok THEN depthSeq + 1 ELSE lastDepth.good]
    /\ UNCHANGED <<env, detection_mutex_, tag_detector_,
                   draw_tag_detections_image_, depth_min_range_,
                   depth_max_range_, cv_image_, imagePc, colorSeq, refreshPc,
                   storeFresh, cycle>>

\* Mutant: the delivered frame is stored before it is known to convert.
DepthCallbackStoresUnconverted(ok) ==
    /\ depthSeq < MaxDepthFrames
    /\ depthSeq' = depthSeq + 1
    /\ cv_depth_' = depthSeq + 1
    /\ lastDepth' = [ok |-> ok, everConverted |-> lastDepth.everConverted \/ ok,
                     good |-> IF ok THEN depthSeq + 1 ELSE lastDepth.good]
    /\ UNCHANGED <<env, detection_mutex_, tag_detector_,
                   draw_tag_detections_image_, depth_min_range_,
                   depth_max_range_, cv_image_, imagePc, colorSeq, refreshPc,
                   storeFresh, cycle>>

\* Lines 141-155.  No lock is taken.  toCvCopy either yields the converted
\* frame, which is assigned to cv_depth_, or throws, and the handler returns.
DepthCallback(ok) ==
    /\ depthSeq < MaxDepthFrames
    /\ depthSeq' = depthSeq + 1
    /\ cv_depth_' = IF ok THEN depthSeq + 1 ELSE cv_depth_
    /\ lastDepth' = [ok |-> ok, everConverted |-> lastDepth.everConverted \/ ok,
                     good |-> IF ok THEN depthSeq + 1 ELSE lastDepth.good]
    /\ UNCHANGED <<env, detection_mutex_, tag_detector_,
                   draw_tag_detections_image_, depth_min_range_,
                   depth_max_range_, cv_image_, imagePc, colorSeq, refreshPc,
                   storeFresh, cycle>>

\* -------------------------------------------------- refreshParamsCallback
\* The service is called (lines 90-93).
RefreshRequest ==
    /\ refreshPc = "idle"
    /\ refreshPc' = "lock"
    /\ UNCHANGED <<env, detection_mutex_, members, imagePc, depthSeq, colorSeq,
                   storeFresh, lastDepth, cycle>>

\* Mutant: the refresh does not wait for detection_mutex_.
RefreshLockUnguarded ==
    /\ refreshPc = "lock"
    /\ refreshPc' = "Refreshing"
    /\ UNCHANGED <<env, detection_mutex_, members, imagePc, depthSeq, colorSeq,
                   storeFresh, lastDepth, cycle>>

\* std::scoped_lock lock(detection_mutex_) (line 85).
RefreshLock ==
    /\ refreshPc = "lock"
    /\ detection_mutex_ = "free"
    /\ detection_mutex_' = "refresh"
    /\ refreshPc' = "Refreshing"
    /\ UNCHANGED <<env, members, imagePc, depthSeq, colorSeq, storeFresh,
                   lastDepth, cycle>>

\* Mutant: the refresh also drops the stored depth frame.
RefreshSwapResetsDepth ==
    /\ refreshPc = "Refreshing"
    /\ tag_detector_' = NewTagDetector(paramServer)
    /\ cv_depth_' = NULL
    /\ storeFresh' = TRUE
    /\ refreshPc' = "return"
    /\ UNCHANGED <<env, detection_mutex_, draw_tag_detections_image_,
                   depth_min_range_, depth_max_range_, cv_image_,
                   imagePc, depthSeq, colorSeq, lastDepth, cycle>>

\* tag_detector_.reset(new TagDetector(pnh)) (lines 86-87).
RefreshSwap ==
    /\ refreshPc = "Refreshing"
    /\ tag_detector_' = NewTagDetector(paramServer)
    /\ storeFresh' = TRUE
    /\ refreshPc' = "return"
    /\ UNCHANGED <<env, detection_mutex_, draw_tag_detections_image_,
                   depth_min_range_, depth_max_range_, cv_image_, cv_depth_,
                   imagePc, depthSeq, colorSeq, lastDepth, cycle>>

\* The lock goes out of scope and the service returns true (lines 88, 94).
RefreshReturn ==
    /\ refreshPc = "return"
    /\ detection_mutex_' = "free"
    /\ refreshPc' = "idle"
    /\ UNCHANGED <<env, members, imagePc, depthSeq, colorSeq, storeFresh,
                   lastDepth, cycle>>

\* ---------------------------------------------------------- imageCallback
\* Mutant: a return path that leaves detection_mutex_ locked.
ReleaseLockForgotten == UNCHANGED detection_mutex_

\* Mutant: the negation of get_publish_tf() is lost.
SkipDetectionNoNegation(detSubs, imgSubs, detector) ==
    detSubs = 0 /\ imgSubs = 0 /\ get_publish_tf(detector)

\* The lazy-update test of lines 105-107: nobody subscribed and no tf.
SkipDetection(detSubs, imgSubs, detector) ==
    detSubs = 0 /\ imgSubs = 0 /\ ~get_publish_tf(detector)

\* The scoped_lock of line 101 goes out of scope on every return.
ReleaseLock == detection_mutex_' = "free"

\* A synchronized color frame and camera info are delivered (lines 60-63).
ImageArrive ==
    /\ imagePc = "idle"
    /\ colorSeq < MaxColorFrames
    /\ colorSeq' = colorSeq + 1
    /\ imagePc' = "lock"
    /\ UNCHANGED <<env, detection_mutex_, members, depthSeq, refreshPc,
                   storeFresh, lastDepth, cycle>>

\* std::scoped_lock lock(detection_mutex_) (line 101): the cycle starts.
ImageLock ==
    /\ imagePc = "lock"
    /\ detection_mutex_ = "free"
    /\ detection_mutex_' = "image"
    /\ imagePc' = "gate"
    /\ cycle' = [NoCycle EXCEPT !.frame = colorSeq,
                                !.afterDecodeError =
                                    (cycle.outcome = "FrameDecodeError"),
                                !.outcome = "running",
                                !.depthAtStart = cv_depth_]
    /\ UNCHANGED <<env, members, depthSeq, colorSeq, refreshPc, storeFresh,
                   lastDepth>>

\* Mutant: the frame is converted and stored before the lazy-update test.
ImageGateAfterConversion ==
    /\ imagePc = "gate"
    /\ cv_image_' = cycle.frame
    /\ LET seen == [cycle EXCEPT !.quietAtGate =
                                     /\ detSubscribers = 0
                                     /\ imgSubscribers = 0
                                     /\ ~tag_detector_.publish_tf,
                                 !.detectorAtGate = tag_detector_]
       IN  IF SkipDetection(detSubscribers, imgSubscribers, tag_detector_)
           THEN /\ cycle' = [seen EXCEPT !.outcome = "GatedSkip"]
                /\ imagePc' = "idle"
                /\ ReleaseLock
           ELSE /\ cycle' = seen
                /\ imagePc' = "convert"
                /\ UNCHANGED detection_mutex_
    /\ UNCHANGED <<env, tag_detector_, draw_tag_detections_image_,
                   depth_min_range_, depth_max_range_, cv_depth_, depthSeq,
                   colorSeq, refreshPc, storeFresh, lastDepth>>

\* Lines 105-111: skip the frame when nobody listens and no tf is published.
ImageGate ==
    /\ imagePc = "gate"
    /\ LET seen == [cycle EXCEPT !.quietAtGate =
                                     /\ detSubscribers = 0
                                     /\ imgSubscribers = 0
                                     /\ ~tag_detector_.publish_tf,
                                 !.detectorAtGate = tag_detector_]
       IN  IF SkipDetection(detSubscribers, imgSubscribers, tag_detector_)
           THEN /\ cycle' = [seen EXCEPT !.outcome = "GatedSkip"]
                /\ imagePc' = "idle"
                /\ ReleaseLock
           ELSE /\ cycle' = seen
                /\ imagePc' = "convert"
                /\ UNCHANGED detection_mutex_
    /\ UNCHANGED <<env, members, depthSeq, colorSeq, refreshPc, storeFresh,
                   lastDepth>>

\* Mutant: the catch block logs the exception and does not return.
ImageConvertNoReturn(ok) ==
    /\ imagePc = "convert"
    /\ cycle' = IF ok THEN cycle ELSE [cycle EXCEPT !.outcome = "FrameDecodeError"]
    /\ cv_image_' = IF ok THEN cycle.frame ELSE cv_image_
    /\ imagePc' = "depthCheck"
    /\ UNCHANGED <<env, detection_mutex_, tag_detector_,
                   draw_tag_detections_image_, depth_min_range_,
                   depth_max_range_, cv_depth_, depthSeq, colorSeq, refreshPc,
                   storeFresh, lastDepth>>

\* Lines 115-123: cv_image_ = toCvCopy(image_rect, encoding), or the
\* cv_bridge exception is caught, logged, and the handler returns.
ImageConvert(ok) ==
    /\ imagePc = "convert"
    /\ IF ok
       THEN /\ cv_image_' = cycle.frame
            /\ imagePc' = "depthCheck"
            /\ UNCHANGED <<detection_mutex_, cycle>>
       ELSE /\ cycle' = [cycle EXCEPT !.outcome = "FrameDecodeError"]
            /\ imagePc' = "idle"
            /\ ReleaseLock
            /\ UNCHANGED cv_image_
    /\ UNCHANGED <<env, tag_detector_, draw_tag_detections_image_,
                   depth_min_range_, depth_max_range_, cv_depth_, depthSeq,
                   colorSeq, refreshPc, storeFresh, lastDepth>>

\* Mutant: the test for a missing depth image is dropped.
DepthMissingUnchecked(depth) == FALSE

\* cv_depth_ == NULL (line 126).
DepthMissing(depth) == depth = NULL


\* Mutant: without a depth frame the handler goes on to the draw block.
ImageDepthCheckDrawsAnyway ==
    /\ imagePc = "depthCheck"
    /\ LET seen == [cycle EXCEPT !.depthAtCheck = cv_depth_,
                                 !.depthlessAtCheck = ~lastDepth.everConverted]
       IN  IF DepthMissing(cv_depth_)
           THEN /\ cycle' = [seen EXCEPT !.outcome = "NoDepthAvailable"]
                /\ imagePc' = "draw"
           ELSE /\ cycle' = seen
                /\ imagePc' = "detect"
    /\ UNCHANGED <<env, detection_mutex_, members, depthSeq, colorSeq,
                   refreshPc, storeFresh, lastDepth>>

\* Lines 126-129: if (cv_depth_ == NULL) warn and return.
ImageDepthCheck ==
    /\ imagePc = "depthCheck"
    /\ LET seen == [cycle EXCEPT !.depthAtCheck = cv_depth_,
                                 !.depthlessAtCheck = ~lastDepth.everConverted]
       IN  IF DepthMissing(cv_depth_)
           THEN /\ cycle' = [seen EXCEPT !.outcome = "NoDepthAvailable"]
                /\ imagePc' = "idle"
                /\ ReleaseLock
           ELSE /\ cycle' = seen
                /\ imagePc' = "detect"
                /\ UNCHANGED detection_mutex_
    /\ UNCHANGED <<env, members, depthSeq, colorSeq, refreshPc, storeFresh,
                   lastDepth>>

\* Mutant: the annotated image is drawn whatever the option says.
DrawsImageAlways == TRUE

\* Whether the cycle goes on to draw the annotated image (line 135).
DrawsImage == draw_tag_detections_image_

\* Mutant: an empty detection array is not published.
PublishCountNonEmpty(result) == IF result = {} THEN 0 ELSE 1

\* Messages handed to tag_detections_publisher_.publish in one cycle
\* (line 130): the detection array, whatever it holds.
PublishCount(result) == 1

\* Mutant: the two range arguments are handed over in the wrong order.
RangeGateSwapped == [min |-> depth_max_range_, max |-> depth_min_range_]

\* The range arguments of the detectTags call (line 131).
RangeGate == [min |-> depth_min_range_, max |-> depth_max_range_]

\* Lines 130-131: publish(detectTags(cv_image_, cv_depth_, camera_info,
\* depth_min_range_, depth_max_range_)).
ImageDetect(candidates) ==
    /\ imagePc = "detect"
    /\ LET result == detectTags(candidates, RangeGate.min, RangeGate.max)
           done == [cycle EXCEPT !.detects = @ + 1,
                                 !.depthUsed = cv_depth_,
                                 !.depthFailedBefore =
                                     lastDepth.everConverted /\ ~lastDepth.ok,
                                 !.minUsed = RangeGate.min,
                                 !.maxUsed = RangeGate.max,
                                 !.candidates = candidates,
                                 !.result = result,
                                 !.pubs = @ + PublishCount(result)]
       IN  IF DrawsImage
           THEN /\ cycle' = done
                /\ imagePc' = "draw"
                /\ UNCHANGED detection_mutex_
           ELSE /\ cycle' = [done EXCEPT !.outcome = "Completed"]
                /\ imagePc' = "idle"
                /\ ReleaseLock
    /\ UNCHANGED <<env, members, depthSeq, colorSeq, refreshPc, storeFresh,
                   lastDepth>>

\* Lines 135-140: drawDetections(cv_image_), publish the annotated image.
ImageDraw ==
    /\ imagePc = "draw"
    /\ cycle' = [cycle EXCEPT !.draws = @ + 1,
                              !.imgPubs = @ + 1,
                              !.imgSubsAtDraw = imgSubscribers,
                              !.outcome = "Completed"]
    /\ imagePc' = "idle"
    /\ ReleaseLock
    /\ UNCHANGED <<env, members, depthSeq, colorSeq, refreshPc, storeFresh,
                   lastDepth>>

\* ------------------------------------------------------------------- Next
Next ==
    \/ DetSubscribersChange
    \/ ImgSubscribersChange
    \/ \E key \in ParamKeys : \E value \in ParamValues(key) : SetParam(key, value)
    \/ \E ok \in BOOLEAN : DepthCallback(ok)
    \/ RefreshRequest
    \/ RefreshLock
    \/ RefreshSwap
    \/ RefreshReturn
    \/ ImageArrive
    \/ ImageLock
    \/ ImageGate
    \/ \E ok \in BOOLEAN : ImageConvert(ok)
    \/ ImageDepthCheck
    \/ \E candidates \in {{}} \cup {{r} : r \in CandidateRanges} :
          ImageDetect(candidates)
    \/ ImageDraw

Spec == Init /\ [][Next]_vars

\* Fair scheduling: a handler that is running takes its next step (each
\* statement of lines 80-140 terminates), and a handler waiting in
\* std::scoped_lock (lines 85, 101) gets detection_mutex_ if it is free again
\* and again.  Deliveries, requests and parameter writes are not forced.
FairSpec ==
    /\ Spec
    /\ SF_vars(RefreshLock)
    /\ SF_vars(ImageLock)
    /\ WF_vars(RefreshSwap)
    /\ WF_vars(RefreshReturn)
    /\ WF_vars(ImageGate)
    /\ WF_vars(\E ok \in BOOLEAN : ImageConvert(ok))
    /\ WF_vars(ImageDepthCheck)
    /\ WF_vars(\E candidates \in {{}} \cup {{r} : r \in CandidateRanges} :
                   ImageDetect(candidates))
    /\ WF_vars(ImageDraw)

\* ================================================================ claims

\* C1: all three state-mutating operations are serialized by the detection
\* lock: while a detection cycle is in flight (imageCallback holds the lock)
\* no step replaces the current depth frame.
C1_DepthDeliveryBlockedDuringCycle ==
    [][(imagePc \in InCycle) => (UNCHANGED cv_depth_)]_vars

\* C2: in every cycle that publishes a Detection Set, the depth frame handed
\* to detectTags is the one that was current when the cycle took the lock,
\* and it is the frame that was tested for presence.
C2_DetectorGetsDepthOfCycleStart ==
    cycle.detects >= 1 =>
        /\ cycle.depthUsed = cycle.depthAtStart
        /\ cycle.depthUsed = cycle.depthAtCheck

\* C3: a color frame whose gate test runs while tag_detections and
\* tag_detections_image have no subscriber and the detector does not publish
\* tf ends there: detectTags is not called, nothing is published or drawn.
C3_GatedFrameDoesNothing ==
    cycle.quietAtGate =>
        /\ cycle.outcome = "GatedSkip"
        /\ cycle.detects = 0
        /\ cycle.pubs = 0
        /\ cycle.draws = 0
        /\ cycle.imgPubs = 0
        /\ imagePc \notin InCycle

\* C3 witness: a frame was skipped at the gate although a depth frame and an
\* earlier color frame had been stored.
C3_Witness ==
    /\ cycle.quietAtGate
    /\ cycle.outcome = "GatedSkip"
    /\ cycle.frame = 2
    /\ cv_depth_ # NULL
    /\ cv_image_ = 1

\* C4: a cycle that runs after a completed refresh, the parameter server
\* untouched since that refresh, hands detectTags the server's
\* depth_min_range and depth_max_range and uses a detector built from the
\* server's values.
C4_CycleAfterRefreshUsesParameterServer ==
    [][(cycle'.detects > cycle.detects /\ storeFresh) =>
          /\ cycle'.minUsed = paramServer.depth_min_range
          /\ cycle'.maxUsed = paramServer.depth_max_range
          /\ get_publish_tf(tag_detector_) = paramServer.publish_tf]_vars

\* C5: a refresh and a cycle never overlap: while the refresh holds the lock
\* imageCallback is not past its lock acquisition, and from the gate test to
\* the end of the cycle tag_detector_ is the detector the gate test read.
C5_RefreshAndCycleExclude ==
    /\ (refreshPc \in {"Refreshing", "return"}) => (imagePc \notin InCycle)
    /\ (refreshPc \in {"Refreshing", "return"}) <=> (detection_mutex_ = "refresh")
    /\ (imagePc \in InCycle) <=> (detection_mutex_ = "image")
    /\ (imagePc \in (InCycle \ {"gate"})) => (tag_detector_ = cycle.detectorAtGate)

\* C5 witness: a refresh that would change the detector waits for the lock
\* while the cycle is between detectTags and drawDetections.
C5_Witness ==
    /\ refreshPc = "lock"
    /\ imagePc = "draw"
    /\ paramServer.publish_tf # get_publish_tf(tag_detector_)
    /\ cycle.detectorAtGate = tag_detector_

\* C6: a cycle that reaches the depth test before any depth frame has been
\* converted ends with NoDepthAvailable: detectTags is not called, nothing is
\* published or drawn, and the handler has returned and released the lock.
C6_NoDepthEndsCycle ==
    cycle.depthlessAtCheck =>
        /\ cycle.outcome = "NoDepthAvailable"
        /\ cycle.detects = 0
        /\ cycle.pubs = 0
        /\ cycle.draws = 0
        /\ cycle.imgPubs = 0
        /\ imagePc \in {"idle", "lock"}
        /\ detection_mutex_ # "image"

\* C6 witness: the frame passed the gate and was converted, no depth frame
\* had been converted, and the cycle ended with NoDepthAvailable.
C6_Witness ==
    /\ cycle.depthlessAtCheck
    /\ cycle.outcome = "NoDepthAvailable"
    /\ ~cycle.quietAtGate
    /\ cv_image_ = cycle.frame
    /\ imagePc = "idle"
    /\ detection_mutex_ = "free"

\* C7: a cycle publishes exactly one Detection Set when it passes the gate,
\* converts its frame and finds a depth frame, and none otherwise; only the
\* detectTags step of imageCallback publishes, so a depth frame alone (or a
\* refresh) never does.
C7_OnePublicationPerCompletedCycle ==
    /\ [](/\ (cycle.outcome = "Completed") => (cycle.pubs = 1)
          /\ (cycle.outcome \in {"none", "GatedSkip", "FrameDecodeError",
                                 "NoDepthAvailable"}) => (cycle.pubs = 0)
          /\ (cycle.outcome = "running") =>
                 (cycle.pubs = IF imagePc = "draw" THEN 1 ELSE 0)
          /\ (cycle.depthAtCheck # NULL) =>
                 \/ imagePc = "detect" /\ cycle.pubs = 0
                 \/ cycle.pubs = 1 /\ cycle.detects = 1)
    /\ [][(cycle'.pubs > cycle.pubs) =>
              (imagePc = "detect" /\ imagePc' \in {"draw", "idle"})]_vars

\* C7 witness: a completed cycle published its one Detection Set, and the set
\* was empty.
C7_Witness ==
    /\ cycle.outcome = "Completed"
    /\ cycle.pubs = 1
    /\ cycle.detects = 1
    /\ cycle.result = {}

\* C8: drawDetections and the publication of the annotated image happen only
\* while tag_detections_image has at least one subscriber.
C8_DrawsOnlyWithImageSubscriber ==
    (cycle.draws >= 1 \/ cycle.imgPubs >= 1) => (cycle.imgSubsAtDraw >= 1)

\* C8 as amended: a completed cycle draws and publishes the annotated image
\* exactly when publish_tag_detections_image was set at construction,
\* whatever the number of subscribers of tag_detections_image at that time.
C8_DrawsExactlyWhenOptionSet ==
    /\ (cycle.draws >= 1 \/ cycle.imgPubs >= 1 \/ imagePc = "draw")
           => draw_tag_detections_image_
    /\ (cycle.outcome = "Completed") =>
           /\ cycle.draws = (IF draw_tag_detections_image_ THEN 1 ELSE 0)
           /\ cycle.imgPubs = cycle.draws
    /\ (cycle.outcome # "Completed") => (cycle.draws = 0 /\ cycle.imgPubs = 0)

\* C8 witness: the annotated image was drawn and published while
\* tag_detections_image had no subscriber.
C8_Witness ==
    /\ cycle.outcome = "Completed"
    /\ cycle.draws = 1
    /\ cycle.imgPubs = 1
    /\ cycle.imgSubsAtDraw = 0

\* C9: a color frame whose conversion throws ends its cycle there: detectTags
\* is not called, nothing is published or drawn, the handler returns and
\* releases the lock, the failing step leaves cv_depth_, cv_image_,
\* tag_detector_ and the range bounds as they were, and the next color frame
\* goes through the cycle as any other.
C9_DecodeErrorIsContained ==
    /\ [](/\ (cycle.outcome = "FrameDecodeError") =>
                 /\ cycle.detects = 0
                 /\ cycle.pubs = 0
                 /\ cycle.draws = 0
                 /\ cycle.imgPubs = 0
                 /\ imagePc \in {"idle", "lock"}
                 /\ detection_mutex_ # "image"
          /\ (cycle.afterDecodeError /\ cycle.depthAtCheck # NULL) =>
                 \/ imagePc = "detect"
                 \/ cycle.pubs = 1 /\ cycle.detects = 1)
    /\ [][(cycle.outcome # "FrameDecodeError"
             /\ cycle'.outcome = "FrameDecodeError") =>
              /\ UNCHANGED <<tag_detector_, draw_tag_detections_image_,
                             depth_min_range_, depth_max_range_, cv_image_,
                             cv_depth_>>
              /\ detection_mutex_' = "free"]_vars

\* C9 witness: the frame after one whose conversion failed completed a cycle
\* and published its Detection Set.
C9_Witness ==
    /\ cycle.afterDecodeError
    /\ cycle.outcome = "Completed"
    /\ cycle.pubs = 1
    /\ cv_image_ = cycle.frame

\* C10: after depthCallback returns, the current depth frame is the frame it
\* was delivered, whatever the frame.
C10_DepthFrameAlwaysReplaced ==
    (depthSeq > 0) => (cv_depth_ = depthSeq)

\* C10 as amended: depthCallback makes the delivered frame the current depth
\* frame whenever the frame converts, whatever else is going on (no lock, no
\* gate); a frame whose conversion throws leaves the current depth frame as
\* it was.  Either way it calls no detector, publishes nothing, and leaves the
\* detector, the range bounds, the color frame and the lock alone.
C10_DepthFrameReplacedWhenConverted ==
    /\ [](lastDepth.ok => (cv_depth_ = depthSeq))
    /\ [][(depthSeq' # depthSeq) =>
              /\ lastDepth'.ok => (cv_depth_' = depthSeq')
              /\ (~lastDepth'.ok) => (cv_depth_' = cv_depth_)
              /\ UNCHANGED <<tag_detector_, draw_tag_detections_image_,
                             depth_min_range_, depth_max_range_, cv_image_,
                             detection_mutex_, imagePc, refreshPc, cycle>>]_vars

\* C10 witness: a second depth frame replaced the first while a cycle was
\* between its depth test and detectTags.
C10_Witness ==
    /\ lastDepth.ok
    /\ depthSeq = 2
    /\ cv_depth_ = 2
    /\ imagePc = "detect"
    /\ cycle.depthAtCheck = 1

\* C11: every range in a published Detection Set lies between the bounds
\* handed to detectTags, which are depth_min_range_ and depth_max_range_ (0
\* and 10 when the parameters are unset), both bounds included: the set holds
\* exactly the candidates of the frame that are in that band, so a candidate
\* below the minimum or above the maximum is not in it in any form.
C11_RangeGateInclusive ==
    (cycle.pubs >= 1) =>
        /\ cycle.minUsed = depth_min_range_
        /\ cycle.maxUsed = depth_max_range_
        /\ \A r \in cycle.result :
               depth_min_range_ <= r /\ r <= depth_max_range_
        /\ \A r \in cycle.candidates :
               (r \in cycle.result) <=>
                   (depth_min_range_ <= r /\ r <= depth_max_range_)

\* C11 witness: a candidate exactly at the maximum was published.
C11_Witness ==
    /\ cycle.pubs = 1
    /\ cycle.candidates = {depth_max_range_}
    /\ cycle.result = {depth_max_range_}
    /\ depth_max_range_ = DefaultDepthMax

\* C12: the steps of imageCallback for a frame that is skipped at the gate
\* (taking the lock, the gate test and the return) leave tag_detector_, the
\* range bounds, cv_image_ and cv_depth_ as they were, and the skipped frame
\* is not the stored color frame afterwards, so no later cycle can reuse it.
C12_GatedSkipLeavesStateAlone ==
    /\ []((cycle.outcome = "GatedSkip") =>
              (cv_image_ # cycle.frame /\ cycle.detects = 0))
    /\ [][(\/ imagePc = "lock" /\ imagePc' = "gate"
           \/ cycle.outcome # "GatedSkip" /\ cycle'.outcome = "GatedSkip") =>
              UNCHANGED <<tag_detector_, draw_tag_detections_image_,
                          depth_min_range_, depth_max_range_, cv_image_,
                          cv_depth_>>]_vars

\* C12 witness: the second color frame was skipped at the gate and the
\* handler returned; the stored color frame is still the first one and the
\* stored depth frame is still there.
C12_Witness ==
    /\ cycle.outcome = "GatedSkip"
    /\ cycle.frame = 2
    /\ cv_image_ = 1
    /\ cv_depth_ = cycle.depthAtStart
    /\ cv_depth_ # NULL
    /\ imagePc = "idle"
    /\ detection_mutex_ = "free"

\* C13: detection_mutex_ is held exactly while a handler is between its
\* scoped_lock and its return, so every exit of a cycle has released it; a
\* refresh that finds no cycle holding the lock can take it at once; and
\* under fair scheduling no refresh request and no delivered color frame
\* stays unfinished for ever: each handler is back at rest again and again,
\* which it reaches only by returning.
C13_RefreshEventuallyCompletes ==
    /\ [](/\ (detection_mutex_ = "image") <=> (imagePc \in InCycle)
          /\ (detection_mutex_ = "refresh") <=>
                 (refreshPc \in {"Refreshing", "return"})
          /\ (cycle.outcome \in {"GatedSkip", "FrameDecodeError",
                                 "NoDepthAvailable", "Completed"}) =>
                 (detection_mutex_ # "image")
          /\ (refreshPc = "lock" /\ imagePc \notin InCycle) =>
                 (detection_mutex_ = "free"))
    /\ []<>(refreshPc = "idle")
    /\ []<>(imagePc = "idle")

\* C13 witness: a refresh was requested while a cycle holds the lock between
\* its depth test and detectTags, and is waiting for it.
C13_Witness ==
    /\ refreshPc = "lock"
    /\ detection_mutex_ = "image"
    /\ imagePc = "detect"
    /\ cycle.outcome = "running"

\* C14: when publish_tag_detections_image was not set at construction, the
\* option stays unset, no cycle draws or publishes an annotated image,
\* tag_detections_image never has a subscriber to count, and the gate skips
\* a frame exactly when tag_detections has no subscriber and the detector
\* does not publish tf.
C14_NoImageWhenOptionDisabled ==
    /\ []((~draw_tag_detections_image_) =>
              /\ imgSubscribers = 0
              /\ cycle.draws = 0
              /\ cycle.imgPubs = 0
              /\ imagePc # "draw")
    /\ [][/\ draw_tag_detections_image_' = draw_tag_detections_image_
          /\ (~draw_tag_detections_image_ /\ imagePc = "gate"
                /\ imagePc' # "gate") =>
                 ((imagePc' = "idle") <=>
                      (detSubscribers = 0 /\ ~get_publish_tf(tag_detector_)))
         ]_vars

\* C14 witness: with the option unset, a cycle after a refresh completed and
\* published its Detection Set without an annotated image.
C14_Witness ==
    /\ ~draw_tag_detections_image_
    /\ cycle.outcome = "Completed"
    /\ cycle.pubs = 1
    /\ cycle.imgPubs = 0
    /\ storeFresh
    /\ depthSeq >= 1
    /\ imagePc = "idle"

\* C15: once a depth frame has been converted, cv_depth_ is never NULL
\* again, whatever depth frames, failed conversions, skipped frames and
\* refreshes follow, and no cycle that reaches the depth test after that
\* ends with NoDepthAvailable.
C15_DepthAvailabilityMonotone ==
    /\ [](lastDepth.everConverted => (cv_depth_ # NULL))
    /\ [][/\ (cv_depth_ # NULL) => (cv_depth_' # NULL)
          /\ (cycle.outcome # "NoDepthAvailable"
                /\ cycle'.outcome = "NoDepthAvailable") =>
                 (~lastDepth.everConverted)]_vars

\* C15 witness: after a converted depth frame, a depth frame that failed to
\* convert and a refresh, the second color frame found a depth frame at the
\* depth test and completed its cycle.
C15_Witness ==
    /\ lastDepth.everConverted
    /\ ~lastDepth.ok
    /\ depthSeq = 2
    /\ storeFresh
    /\ cycle.frame = 2
    /\ cycle.depthAtStart = 1
    /\ cycle.depthAtCheck = 1
    /\ cycle.outcome = "Completed"

\* C16: a depth frame whose conversion throws leaves cv_depth_ as it was, so
\* cv_depth_ is always the last depth frame that converted, and that is the
\* frame a later detectTags call is handed.
C16_FailedDepthKeepsLastGood ==
    /\ [](cv_depth_ = lastDepth.good)
    /\ [][/\ (depthSeq' # depthSeq /\ ~lastDepth'.ok) =>
                 (cv_depth_' = cv_depth_ /\ lastDepth'.good = lastDepth.good)
          /\ (cycle'.detects > cycle.detects) =>
                 (cycle'.depthUsed = lastDepth.good /\ cycle'.depthUsed # NULL)
         ]_vars

\* C16 witness: the first depth frame converted, the second did not, and a
\* cycle whose detectTags call came after that failure was handed the first.
C16_Witness ==
    /\ cycle.detects = 1
    /\ cycle.depthFailedBefore
    /\ cycle.depthUsed = 1
    /\ depthSeq = 2
    /\ cv_depth_ = 1
    /\ lastDepth.good = 1

\* C17: a cycle reaches the draw block only after it has published its
\* Detection Set, the annotated image is published by no other step, and a
\* cycle that ended at the gate, at the conversion of its frame or at the
\* depth test has drawn and published no annotated image.
C17_ImageOnlyAfterDetectionSet ==
    /\ [](/\ (imagePc = "draw" \/ cycle.draws >= 1 \/ cycle.imgPubs >= 1) =>
                 (cycle.pubs = 1 /\ cycle.detects = 1)
          /\ (cycle.pubs = 0) => (cycle.draws = 0 /\ cycle.imgPubs = 0)
          /\ (cycle.outcome \in {"GatedSkip", "FrameDecodeError",
                                 "NoDepthAvailable"}) =>
                 (cycle.pubs = 0 /\ cycle.imgPubs = 0))
    /\ [][(cycle'.imgPubs > cycle.imgPubs) =>
              /\ imagePc = "draw"
              /\ cycle.pubs = 1
              /\ cycle'.pubs = cycle.pubs
              /\ cycle'.frame = cycle.frame]_vars

\* C17 witness: a cycle published an empty Detection Set and then the
\* annotated image of the same frame.
C17_Witness ==
    /\ cycle.outcome = "Completed"
    /\ cycle.pubs = 1
    /\ cycle.result = {}
    /\ cycle.imgPubs = 1
    /\ cv_image_ = cycle.frame
    /\ imagePc = "idle"

====
